---- MODULE Spec2Model ----
(***************************************************************************)
(* Document / barcode lifecycle and CSV export of the mobile inventory     *)
(* application (src/main.py).  The store is the three SQLite tables users, *)
(* documents and barcodes, the credential file users.txt and the directory *)
(* static/documents of export artifacts.  One action per request handler.  *)
(***************************************************************************)
EXTENDS Integers, Sequences, FiniteSets, TLC

\* ---------------------------------------------------------------- bounds
\* The number of steps of a run: requests handled and ticks of the clock.
MaxSteps == 5
\* Clock ticks per second: created_at keeps sub-second digits, the export
\* filename only whole seconds.
TicksPerSecond == 2
\* The listing: the number of scan rows in the table and the latest
\* created_at among them.
MaxRows == 5
MaxListTime == 2

\* ------------------------------------------------------------- constants
\* Python's None (no row found); row ids start at 1.
None == 0

\* is_admin() compares the name with "admin"; init_db() creates the user
\* named by the Cyrillic word for administrator, written AdminRu here.
AdminName == "admin"
AdminRu == "AdminRu"
FileNames == {AdminRu, AdminName}
NewNames == {"bob"}

\* The three document types the handler accepts (Cyrillic in the source).
DocTypes == {"Inventory", "Receipt", "Expense"}
\* Form values of doc_type that requests carry: a latin key, a type given
\* directly, and a value outside the set.
RawDocTypes == {"inventory", "Receipt", "bogus"}
\* Form values of comment and barcode, as sequences of characters.
NewComments == {<<" ", "c">>}
EditComments == {<<"d", " ">>}
RawBarcodes == {<<" ">>, <<" ", "A", " ">>, <<"B">>}


VARIABLES
  users,        \* table users: id -> name
  usersFile,    \* users.txt: the names it lists
  documents,    \* table documents: id -> row
  barcodes,     \* table barcodes: id -> row
  files,        \* static/documents: filename -> CSV rows
  seqUsers,     \* sqlite_sequence of users (largest id ever used)
  seqDocuments, \* sqlite_sequence of documents
  seqBarcodes,  \* sqlite_sequence of barcodes
  now,          \* datetime.now()
  steps,        \* requests that write and ticks so far
  last,         \* the last request handled and its outcome
  view,         \* the grouped listing the scan page last rendered
  requests      \* requests in progress in the server processes, where several run

vars == <<users, usersFile, documents, barcodes, files,
          seqUsers, seqDocuments, seqBarcodes, now, steps, last, view,
          requests>>
store == <<users, usersFile, documents, barcodes, files,
           seqUsers, seqDocuments, seqBarcodes>>

\* Row ids a request can name: those handed out so far and one never handed
\* out (a request naming a row that does not exist yet finds none, whichever).
Upto(seq) == 1..(seq + 1)
\* User ids a request's path can name: the same, where the id never handed
\* out is the one the next new user gets.
UserIds == Upto(seqUsers)

\* ------------------------------------------------------------ strings
RECURSIVE lstrip(_)
lstrip(s) ==
  IF s # <<>> /\ Head(s) = " " THEN lstrip(Tail(s)) ELSE s

RECURSIVE rstrip(_)
rstrip(s) ==
  IF s # <<>> /\ s[Len(s)] = " " THEN rstrip(SubSeq(s, 1, Len(s) - 1)) ELSE s

\* str.strip()
strip(s) == rstrip(lstrip(s))

\* doc_type_map and the fall-through for a value that is not a latin key.
doc_type_map(raw) ==
  CASE raw = "inventory" -> "Inventory"
    [] raw = "receipt" -> "Receipt"
    [] raw = "expense" -> "Expense"
    [] OTHER -> raw

\* ------------------------------------------------------------ functions
Remove(f, ks) == [k \in DOMAIN f \ ks |-> f[k]]
Put(f, k, v) == (k :> v) @@ f

is_admin(user_name) == user_name = AdminName

\* The requester's row exists and is_admin(name).
RequesterIsAdmin(user_id) ==
  user_id \in DOMAIN users /\ is_admin(users[user_id])

\* documents d JOIN users u ON d.user_id = u.id WHERE d.id = ?
JoinedDocument(U, D, document_id) ==
  document_id \in DOMAIN D /\ D[document_id].user_id \in DOMAIN U

\* SELECT * FROM barcodes WHERE document_id = ?   (the ids of the rows)
get_document_barcodes(B, document_id) ==
  {b \in DOMAIN B : B[b].document_id = document_id}

\* SELECT ... WHERE user_id = ? AND status = 'active'
ActiveDocuments(D, user_id) ==
  {d \in DOMAIN D : D[d].user_id = user_id /\ D[d].status = "active"}

\* The query without AND status = 'active': the user's newest document.
get_active_document_AnyStatus(D, user_id) ==
  LET own == {d \in DOMAIN D : D[d].user_id = user_id}
      newest == {d \in own : \A e \in own : D[e].created_at <= D[d].created_at}
  IN IF own = {} THEN {None} ELSE newest

\* ... ORDER BY created_at DESC LIMIT 1: the rows the query may return.  With
\* several active rows of one created_at SQL leaves the row open.
get_active_document(D, user_id) ==
  LET act == ActiveDocuments(D, user_id)
      newest == {d \in act : \A e \in act : D[e].created_at <= D[d].created_at}
  IN IF act = {} THEN {None} ELSE newest

\* An INSERT that inserts only when the user has no active document.
create_document_IfNoActive(D, id, user_id, doc_type, comment, t) ==
  IF ActiveDocuments(D, user_id) # {}
    THEN D
    ELSE Put(D, id, [user_id |-> user_id, doc_type |-> doc_type, status |-> "active",
                     created_at |-> t, closed_at |-> <<>>, comment |-> comment])

\* INSERT INTO documents ... 'active'
create_document(D, id, user_id, doc_type, comment, t) ==
  Put(D, id, [user_id |-> user_id, doc_type |-> doc_type, status |-> "active",
              created_at |-> t, closed_at |-> <<>>, comment |-> comment])

\* An UPDATE that sets the status and leaves closed_at as it is.
close_document_StatusOnly(D, document_id, t) ==
  [d \in DOMAIN D |->
     IF d = document_id THEN [D[d] EXCEPT !.status = "closed"] ELSE D[d]]

\* UPDATE documents SET status = 'closed', closed_at = ? WHERE id = ?
close_document(D, document_id, t) ==
  [d \in DOMAIN D |->
     IF d = document_id
       THEN [D[d] EXCEPT !.status = "closed", !.closed_at = <<t>>]
       ELSE D[d]]

\* add_barcode that skips a barcode the document already holds.
add_barcode_Dedup(B, id, document_id, barcode, t) ==
  IF \E b \in DOMAIN B : B[b].document_id = document_id /\ B[b].barcode = barcode
    THEN B
    ELSE Put(B, id, [document_id |-> document_id, barcode |-> barcode,
                     created_at |-> t])

\* INSERT INTO barcodes
add_barcode(B, id, document_id, barcode, t) ==
  Put(B, id, [document_id |-> document_id, barcode |-> barcode, created_at |-> t])

\* delete_barcode that deletes every row of the row's document.
delete_barcode_WholeDocument(B, barcode_id) ==
  IF barcode_id \in DOMAIN B
    THEN Remove(B, {b \in DOMAIN B : B[b].document_id = B[barcode_id].document_id})
    ELSE B

\* DELETE FROM barcodes WHERE id = ?
delete_barcode(B, barcode_id) == Remove(B, {barcode_id})

\* A filename made unique by the document's id.
csv_filename_WithId(U, D, document_id) ==
  <<D[document_id].doc_type, U[D[document_id].user_id],
    D[document_id].created_at \div TicksPerSecond, document_id>>

\* A filename that also carries the comment.
csv_filename_WithCount(U, D, document_id) ==
  <<D[document_id].doc_type, U[D[document_id].user_id],
    D[document_id].created_at \div TicksPerSecond, D[document_id].comment>>

\* The export filename: doc type, owner name, created_at to the second.
csv_filename(U, D, document_id) ==
  <<D[document_id].doc_type, U[D[document_id].user_id],
    D[document_id].created_at \div TicksPerSecond>>

\* The ids of a document's barcodes ORDER BY created_at (rowid among equals).
RECURSIVE OrderedBarcodes(_, _)
OrderedBarcodes(B, ids) ==
  IF ids = {} THEN <<>>
  ELSE LET first == CHOOSE b \in ids : \A c \in ids :
                      \/ B[b].created_at < B[c].created_at
                      \/ B[b].created_at = B[c].created_at /\ b <= c
       IN <<first>> \o OrderedBarcodes(B, ids \ {first})

CsvHeader == <<"User", "Date", "DocType", "Comment", "Barcode">>

\* The rows generate_csv writes for a document that the join finds.
csv_rows(U, D, B, document_id) ==
  LET doc == D[document_id]
      ids == OrderedBarcodes(B, get_document_barcodes(B, document_id))
  IN <<CsvHeader>> \o
     [i \in 1..Len(ids) |->
        <<U[doc.user_id], doc.created_at, doc.doc_type, doc.comment,
          B[ids[i]].barcode>>]

\* generate_csv: whether it raises 404, and the files it leaves.
generate_csv_ok(U, D, document_id) == JoinedDocument(U, D, document_id)

\* generate_csv creating an empty file before it looks the document up.
generate_csv_Touch(U, D, B, F, document_id) ==
  IF generate_csv_ok(U, D, document_id)
    THEN Put(F, csv_filename(U, D, document_id), csv_rows(U, D, B, document_id))
    ELSE Put(F, <<"", "", document_id>>, <<>>)

\* generate_csv opening the file to append, not to write.
generate_csv_Append(U, D, B, F, document_id) ==
  IF generate_csv_ok(U, D, document_id)
    THEN Put(F, csv_filename(U, D, document_id),
             (IF csv_filename(U, D, document_id) \in DOMAIN F
                THEN F[csv_filename(U, D, document_id)] ELSE <<>>)
             \o csv_rows(U, D, B, document_id))
    ELSE F

generate_csv(U, D, B, F, document_id) ==
  IF generate_csv_ok(U, D, document_id)
    THEN Put(F, csv_filename(U, D, document_id), csv_rows(U, D, B, document_id))
    ELSE F

\* delete_document without the ownership condition of its SELECT.
delete_document_ok_AnyOwner(U, D, document_id, user_id) ==
  JoinedDocument(U, D, document_id)

\* delete_document(document_id, user_id): the row it selects, if any.
delete_document_ok(U, D, document_id, user_id) ==
  JoinedDocument(U, D, document_id) /\ D[document_id].user_id = user_id

\* admin_delete_document(document_id): no ownership condition.
admin_delete_document_ok(U, D, document_id) == JoinedDocument(U, D, document_id)

\* The three effects of both delete functions on a row they selected: the
\* file is removed when the status is closed, then the barcodes, then the row.
DeleteFiles(U, D, F, document_id) ==
  IF D[document_id].status = "closed"
    THEN Remove(F, {csv_filename(U, D, document_id)})
    ELSE F

\* The delete functions without the DELETE FROM barcodes.
DeleteBarcodes_Keep(B, document_id) == B

DeleteBarcodes(B, document_id) == Remove(B, get_document_barcodes(B, document_id))

DeleteRow(D, document_id) == Remove(D, {document_id})

\* delete_document(document_id, user_id): whether it returns True, and the
\* tables and files it leaves.
delete_document(U, D, B, F, document_id, user_id) ==
  IF delete_document_ok(U, D, document_id, user_id)
    THEN [success |-> TRUE,
          files |-> DeleteFiles(U, D, F, document_id),
          barcodes |-> DeleteBarcodes(B, document_id),
          documents |-> DeleteRow(D, document_id)]
    ELSE [success |-> FALSE, files |-> F, barcodes |-> B, documents |-> D]

\* admin_delete_document that leaves the CSV file of a closed document.
admin_delete_document_KeepFile(U, D, B, F, document_id) ==
  IF admin_delete_document_ok(U, D, document_id)
    THEN [success |-> TRUE,
          files |-> F,
          barcodes |-> [b \in {x \in DOMAIN B : B[x].document_id # document_id} |-> B[b]],
          documents |-> [d \in DOMAIN D \ {document_id} |-> D[d]]]
    ELSE [success |-> FALSE, files |-> F, barcodes |-> B, documents |-> D]

\* admin_delete_document(document_id), statement by statement: os.remove of
\* the path built from the selected row when its status is closed, DELETE
\* FROM barcodes WHERE document_id = ?, DELETE FROM documents WHERE id = ?.
admin_delete_document(U, D, B, F, document_id) ==
  IF admin_delete_document_ok(U, D, document_id)
    THEN [success |-> TRUE,
          files |-> IF D[document_id].status = "closed"
                      THEN [f \in DOMAIN F \
                              {<<D[document_id].doc_type, U[D[document_id].user_id],
                                 D[document_id].created_at \div TicksPerSecond>>} |-> F[f]]
                      ELSE F,
          barcodes |-> [b \in {x \in DOMAIN B : B[x].document_id # document_id} |-> B[b]],
          documents |-> [d \in DOMAIN D \ {document_id} |-> D[d]]]
    ELSE [success |-> FALSE, files |-> F, barcodes |-> B, documents |-> D]

\* The response, and one more request handled.
Respond(op, user_id, arg, res) ==
  /\ steps' = steps + 1
  /\ last' = [op |-> op, res |-> res]
  /\ view' = view
  /\ requests' = requests

\* ---------------------------------------------------- the grouped listing
\* ord() of the characters used: SQLite compares TEXT byte by byte.
ord(ch) ==
  CASE ch = " " -> 32
    [] ch = "A" -> 65
    [] ch = "B" -> 66
    [] ch = "c" -> 99
    [] ch = "d" -> 100

\* s < t for TEXT values
RECURSIVE LexLess(_, _)
LexLess(s, t) ==
  IF t = <<>> THEN FALSE
  ELSE IF s = <<>> THEN TRUE
  ELSE IF ord(Head(s)) # ord(Head(t)) THEN ord(Head(s)) < ord(Head(t))
  ELSE LexLess(Tail(s), Tail(t))

\* ORDER BY barcode, created_at, both ascending.
SortsBefore_Ascending(B, x, y) ==
  \/ LexLess(B[x].barcode, B[y].barcode)
  \/ B[x].barcode = B[y].barcode /\ B[x].created_at < B[y].created_at

\* ORDER BY barcode, created_at DESC: row x is placed before row y.
SortsBefore(B, x, y) ==
  \/ LexLess(B[x].barcode, B[y].barcode)
  \/ B[x].barcode = B[y].barcode /\ B[x].created_at > B[y].created_at

\* The orders in which the SELECT may return the rows: SQL leaves the order
\* of rows with one barcode and one created_at open.
RECURSIVE all_barcodes(_, _)
all_barcodes(B, ids) ==
  IF ids = {} THEN {<<>>}
  ELSE UNION {{<<x>> \o rest : rest \in all_barcodes(B, ids \ {x})} :
                x \in {x \in ids : \A y \in ids : ~SortsBefore(B, y, x)}}

\* SELECT barcode, COUNT(*) ... GROUP BY barcode, for one barcode value
barcode_counts(B, document_id, barcode_value) ==
  Cardinality({b \in get_document_barcodes(B, document_id) :
                 B[b].barcode = barcode_value})

\* A sequence number counted over all rows, not per barcode value.
barcode_sequence_Global(result, barcode_value) == Len(result) + 1

\* barcode_sequence[barcode_value] after the loop's increment, given the
\* rows appended so far.
barcode_sequence(result, barcode_value) ==
  Cardinality({j \in 1..Len(result) : result[j].barcode = barcode_value}) + 1

\* The color index without the wrap to four colors.
color_index_NoWrap(total_count, sequence_number) ==
  IF total_count > 1 THEN sequence_number - 1 ELSE 0

color_index(total_count, sequence_number) ==
  IF total_count > 1 THEN (sequence_number - 1) % 4 ELSE 0

\* The loop over all_barcodes, after its first i rows.
RECURSIVE grouped_rows(_, _, _, _)
grouped_rows(B, document_id, rows, i) ==
  IF i = 0 THEN <<>>
  ELSE LET result == grouped_rows(B, document_id, rows, i - 1)
           barcode_value == B[rows[i]].barcode
           total_count == barcode_counts(B, document_id, barcode_value)
           sequence_number == barcode_sequence(result, barcode_value)
       IN Append(result,
                 [id |-> rows[i],
                  barcode |-> barcode_value,
                  created_at |-> B[rows[i]].created_at,
                  is_duplicate |-> total_count > 1,
                  total_count |-> total_count,
                  sequence_number |-> sequence_number,
                  color_index |-> color_index(total_count, sequence_number)])

\* The lists get_document_barcodes_sorted may return.
get_document_barcodes_sorted(B, document_id) ==
  {grouped_rows(B, document_id, rows, Len(rows)) :
     rows \in all_barcodes(B, get_document_barcodes(B, document_id))}

\* No scan page rendered yet.
NoView == [document_id |-> None, rows |-> <<>>]

\* ------------------------------------------------------------------ Init
\* init_db() on an empty database with users.txt listing FileNames: the
\* tables are empty but for the automatically created AdminRu.
Init ==
  /\ users = (1 :> AdminRu)
  /\ usersFile = FileNames
  /\ documents = <<>>
  /\ barcodes = <<>>
  /\ files = <<>>
  /\ seqUsers = 1
  /\ seqDocuments = 0
  /\ seqBarcodes = 0
  /\ now = 0
  /\ steps = 0
  /\ last = [op |-> "init", res |-> "ok"]
  /\ view = NoView
  /\ requests = <<>>

\* --------------------------------------------------------------- actions
\* The clock advances between requests.
Tick ==
  /\ steps < MaxSteps
  /\ steps' = steps + 1
  /\ now' = now + 1
  /\ UNCHANGED <<store, last, view, requests>>

\* POST /login with a name and pin that authenticate_user accepts:
\* get_or_create_user returns the row's id or inserts the row.
login(name) ==
  /\ name \in usersFile
  /\ IF \E u \in DOMAIN users : users[u] = name
       THEN /\ UNCHANGED <<users, seqUsers>>
            /\ Respond("login", CHOOSE u \in DOMAIN users : users[u] = name, None, "ok")
       ELSE /\ users' = Put(users, seqUsers + 1, name)
            /\ seqUsers' = seqUsers + 1
            /\ Respond("login", seqUsers + 1, None, "ok")
  /\ UNCHANGED <<usersFile, documents, barcodes, files, seqDocuments, seqBarcodes, now>>

\* create_new_document without the early redirect for a document of the
\* requested type.
same_type_NoCheck(D, active_doc, doc_type) == FALSE

\* if active_doc: if active_doc['doc_type'] == doc_type (the early redirect)
same_type(D, active_doc, doc_type) ==
  active_doc # None /\ D[active_doc].doc_type = doc_type

\* POST /create_document/{user_id}, with the row get_active_document returned
create_new_document_with(user_id, raw_type, raw_comment, active_doc) ==
  LET doc_type == doc_type_map(raw_type)
      comment == strip(raw_comment)
      new_id == seqDocuments + 1
  IN
  /\ UNCHANGED <<users, usersFile, seqUsers, seqBarcodes, now>>
  /\ IF doc_type \notin DocTypes
       THEN /\ Respond("create_document", user_id, None, "InvalidInput")
            /\ UNCHANGED <<documents, barcodes, files, seqDocuments>>
       ELSE
         IF same_type(documents, active_doc, doc_type)
           THEN \* same type: redirect to the scan page, nothing created
                /\ Respond("create_document", user_id, active_doc, "same_type")
                /\ UNCHANGED <<documents, barcodes, files, seqDocuments>>
         ELSE IF active_doc # None
                 /\ get_document_barcodes(barcodes, active_doc) # {}
                 /\ ~generate_csv_ok(users, close_document(documents, active_doc, now), active_doc)
           THEN \* closed, then generate_csv raises 404 before create_document
                /\ documents' = close_document(documents, active_doc, now)
                /\ Respond("create_document", user_id, active_doc, "NotFound")
                /\ UNCHANGED <<barcodes, files, seqDocuments>>
         ELSE
           LET empty == active_doc # None
                        /\ get_document_barcodes(barcodes, active_doc) = {}
               deleted == empty /\ delete_document_ok(users, documents, active_doc, user_id)
               D1 == IF active_doc = None THEN documents
                     ELSE IF empty
                       THEN (IF deleted THEN DeleteRow(documents, active_doc) ELSE documents)
                       ELSE close_document(documents, active_doc, now)
               B1 == IF deleted THEN DeleteBarcodes(barcodes, active_doc) ELSE barcodes
               F1 == IF active_doc = None THEN files
                     ELSE IF empty
                       THEN (IF deleted THEN DeleteFiles(users, documents, files, active_doc)
                                        ELSE files)
                       ELSE generate_csv(users, D1, barcodes, files, active_doc)
           IN /\ documents' = create_document(D1, new_id, user_id, doc_type, comment, now)
              /\ barcodes' = B1
              /\ files' = F1
              /\ seqDocuments' = new_id
              /\ Respond("create_document", user_id, active_doc, "ok")

create_new_document(user_id, raw_type, raw_comment) ==
  \E active_doc \in get_active_document(documents, user_id) :
    create_new_document_with(user_id, raw_type, raw_comment, active_doc)

\* add_new_barcode testing the barcode as sent, not barcode.strip().
add_new_barcode_error_NoStrip(raw_barcode, active_doc) ==
  IF raw_barcode = <<>> THEN "InvalidInput"
  ELSE IF active_doc = None THEN "NoActiveDocument"
  ELSE "none"

\* The two HTTPException(400) of add_new_barcode, in the order it raises
\* them; "none" when it raises neither.
add_new_barcode_error(raw_barcode, active_doc) ==
  IF strip(raw_barcode) = <<>> THEN "InvalidInput"
  ELSE IF active_doc = None THEN "NoActiveDocument"
  ELSE "none"

\* POST /add_barcode/{user_id}, with the row get_active_document returned
add_new_barcode_with(user_id, raw_barcode, active_doc) ==
  /\ UNCHANGED <<users, usersFile, documents, files, seqUsers, seqDocuments, now>>
  /\ IF add_new_barcode_error(raw_barcode, active_doc) # "none"
           THEN /\ Respond("add_barcode", user_id, None,
                           add_new_barcode_error(raw_barcode, active_doc))
                /\ UNCHANGED <<barcodes, seqBarcodes>>
           ELSE /\ barcodes' = add_barcode(barcodes, seqBarcodes + 1, active_doc,
                                           strip(raw_barcode), now)
                /\ seqBarcodes' = seqBarcodes + 1
                /\ Respond("add_barcode", user_id, active_doc, "ok")

add_new_barcode(user_id, raw_barcode) ==
  \E active_doc \in get_active_document(documents, user_id) :
    add_new_barcode_with(user_id, raw_barcode, active_doc)

\* POST /delete_barcode/{user_id}
remove_barcode(user_id, barcode_id) ==
  /\ barcodes' = delete_barcode(barcodes, barcode_id)
  /\ Respond("delete_barcode", user_id, barcode_id, "ok")
  /\ UNCHANGED <<users, usersFile, documents, files, seqUsers, seqDocuments,
                 seqBarcodes, now>>

\* close_active_document without the check for an empty document.
close_active_document_error_NoEmptyCheck(B, active_doc) ==
  IF active_doc = None THEN "NoActiveDocument" ELSE "none"

\* The two HTTPException(400) of close_active_document; "none" when it
\* raises neither.
close_active_document_error(B, active_doc) ==
  IF active_doc = None THEN "NoActiveDocument"
  ELSE IF get_document_barcodes(B, active_doc) = {} THEN "EmptyDocument"
  ELSE "none"

\* POST /close_document/{user_id}, with the row get_active_document returned
close_active_document_with(user_id, active_doc) ==
  /\ UNCHANGED <<users, usersFile, barcodes, seqUsers, seqDocuments, seqBarcodes, now>>
  /\ IF close_active_document_error(barcodes, active_doc) # "none"
         THEN /\ Respond("close_document", user_id, active_doc,
                         close_active_document_error(barcodes, active_doc))
              /\ UNCHANGED <<documents, files>>
         ELSE LET D1 == close_document(documents, active_doc, now)
              IN /\ documents' = D1
                 /\ files' = generate_csv(users, D1, barcodes, files, active_doc)
                 /\ Respond("close_document", user_id, active_doc,
                            IF generate_csv_ok(users, D1, active_doc)
                              THEN "ok" ELSE "NotFound")

close_active_document(user_id) ==
  \E active_doc \in get_active_document(documents, user_id) :
    close_active_document_with(user_id, active_doc)

\* POST /regenerate_csv/{user_id}
regenerate_document_csv(user_id, document_id) ==
  /\ files' = generate_csv(users, documents, barcodes, files, document_id)
  /\ Respond("regenerate_csv", user_id, document_id,
             IF generate_csv_ok(users, documents, document_id) THEN "ok" ELSE "NotFound")
  /\ UNCHANGED <<users, usersFile, documents, barcodes, seqUsers, seqDocuments,
                 seqBarcodes, now>>

\* POST /delete_document/{user_id}
delete_user_document(user_id, document_id) ==
  /\ UNCHANGED <<users, usersFile, seqUsers, seqDocuments, seqBarcodes, now>>
  /\ LET r == delete_document(users, documents, barcodes, files, document_id, user_id)
     IN /\ files' = r.files
        /\ barcodes' = r.barcodes
        /\ documents' = r.documents
        /\ Respond("delete_document", user_id, document_id,
                   IF r.success THEN "ok" ELSE "NotFound")

\* update_document_comment that also puts the row back to active.
update_document_comment_Reopens(D, document_id, user_id, comment) ==
  [d \in DOMAIN D |->
     IF d = document_id /\ D[d].user_id = user_id
       THEN [D[d] EXCEPT !.comment = comment, !.status = "active"] ELSE D[d]]

\* update_document_comment without the ownership condition of its UPDATE.
update_document_comment_AnyOwner(D, document_id, user_id, comment) ==
  [d \in DOMAIN D |->
     IF d = document_id THEN [D[d] EXCEPT !.comment = comment] ELSE D[d]]

\* UPDATE documents SET comment = ? WHERE id = ? AND user_id = ?
update_document_comment(D, document_id, user_id, comment) ==
  [d \in DOMAIN D |->
     IF d = document_id /\ D[d].user_id = user_id
       THEN [D[d] EXCEPT !.comment = comment] ELSE D[d]]

update_document_comment_ok(D, document_id, user_id) ==
  document_id \in DOMAIN D /\ D[document_id].user_id = user_id

\* UPDATE documents SET comment = ? WHERE id = ?
admin_update_document_comment(D, document_id, comment) ==
  [d \in DOMAIN D |->
     IF d = document_id THEN [D[d] EXCEPT !.comment = comment] ELSE D[d]]

admin_update_document_comment_ok(D, document_id) == document_id \in DOMAIN D

\* POST /update_comment/{user_id}
update_comment(user_id, document_id, raw_comment) ==
  LET comment == strip(raw_comment)
      success == IF RequesterIsAdmin(user_id)
                   THEN admin_update_document_comment_ok(documents, document_id)
                   ELSE update_document_comment_ok(documents, document_id, user_id)
  IN
  /\ documents' = IF RequesterIsAdmin(user_id)
                    THEN admin_update_document_comment(documents, document_id, comment)
                    ELSE update_document_comment(documents, document_id, user_id, comment)
  /\ Respond("update_comment", user_id, document_id,
             IF success THEN "ok" ELSE "NotFound")
  /\ UNCHANGED <<users, usersFile, barcodes, files, seqUsers, seqDocuments,
                 seqBarcodes, now>>

\* POST /admin/delete_document/{user_id}
admin_delete_doc(user_id, document_id) ==
  /\ UNCHANGED <<users, usersFile, seqUsers, seqDocuments, seqBarcodes, now>>
  /\ IF ~RequesterIsAdmin(user_id)
       THEN /\ UNCHANGED <<documents, barcodes, files>>
            /\ Respond("admin_delete_document", user_id, document_id, "Forbidden")
       ELSE LET r == admin_delete_document(users, documents, barcodes, files, document_id)
            IN /\ files' = r.files
               /\ barcodes' = r.barcodes
               /\ documents' = r.documents
               /\ Respond("admin_delete_document", user_id, document_id,
                          IF r.success THEN "ok" ELSE "NotFound")

\* POST /admin/regenerate_csv/{user_id}
admin_regenerate_csv(user_id, document_id) ==
  /\ UNCHANGED <<users, usersFile, documents, barcodes, seqUsers, seqDocuments,
                 seqBarcodes, now>>
  /\ IF ~RequesterIsAdmin(user_id)
       THEN /\ UNCHANGED files
            /\ Respond("admin_regenerate_csv", user_id, document_id, "Forbidden")
       ELSE /\ files' = generate_csv(users, documents, barcodes, files, document_id)
            /\ Respond("admin_regenerate_csv", user_id, document_id,
                       IF generate_csv_ok(users, documents, document_id)
                         THEN "ok" ELSE "NotFound")

\* POST /admin/add_user/{user_id}: add_user_to_system appends the name to
\* users.txt and then inserts the row (name is UNIQUE).
admin_add_user(user_id, name) ==
  /\ UNCHANGED <<documents, barcodes, files, seqDocuments, seqBarcodes, now>>
  /\ IF ~RequesterIsAdmin(user_id)
       THEN /\ UNCHANGED <<users, usersFile, seqUsers>>
            /\ Respond("add_user", user_id, None, "Forbidden")
     ELSE IF name \in usersFile
       THEN /\ UNCHANGED <<users, usersFile, seqUsers>>
            /\ Respond("add_user", user_id, None, "Conflict")
     ELSE IF \E u \in DOMAIN users : users[u] = name
       THEN /\ usersFile' = usersFile \cup {name}
            /\ UNCHANGED <<users, seqUsers>>
            /\ Respond("add_user", user_id, None, "Error500")
       ELSE /\ usersFile' = usersFile \cup {name}
            /\ users' = Put(users, seqUsers + 1, name)
            /\ seqUsers' = seqUsers + 1
            /\ Respond("add_user", user_id, seqUsers + 1, "ok")

\* delete_user_from_system: the barcodes of the user's documents, the
\* documents, the row, and the name's line of users.txt.
\* The DELETE FROM barcodes run after the DELETE FROM documents: its
\* subquery then finds no document of the user.
delete_user_barcodes_AfterDocuments(D, B, user_id) ==
  Remove(B, {b \in DOMAIN B :
               B[b].document_id \in
                 {d \in DOMAIN Remove(D, {e \in DOMAIN D : D[e].user_id = user_id}) :
                    D[d].user_id = user_id}})

delete_user_barcodes(D, B, user_id) ==
  Remove(B, {b \in DOMAIN B :
               B[b].document_id \in {d \in DOMAIN D : D[d].user_id = user_id}})

delete_user_documents(D, user_id) ==
  Remove(D, {d \in DOMAIN D : D[d].user_id = user_id})

\* POST /admin/delete_user/{user_id}
admin_delete_user(user_id, delete_user_id) ==
  /\ UNCHANGED <<files, seqUsers, seqDocuments, seqBarcodes, now>>
  /\ IF ~RequesterIsAdmin(user_id)
       THEN /\ UNCHANGED <<users, usersFile, documents, barcodes>>
            /\ Respond("delete_user", user_id, delete_user_id, "Forbidden")
     ELSE IF user_id = delete_user_id
       THEN /\ UNCHANGED <<users, usersFile, documents, barcodes>>
            /\ Respond("delete_user", user_id, delete_user_id, "Forbidden")
     ELSE IF delete_user_id \in DOMAIN users /\ is_admin(users[delete_user_id])
       THEN /\ UNCHANGED <<users, usersFile, documents, barcodes>>
            /\ Respond("delete_user", user_id, delete_user_id, "Forbidden")
     ELSE IF delete_user_id \notin DOMAIN users
       THEN \* the 404 raised inside the try block is caught and becomes a 500
            /\ UNCHANGED <<users, usersFile, documents, barcodes>>
            /\ Respond("delete_user", user_id, delete_user_id, "Error500")
       ELSE /\ barcodes' = delete_user_barcodes(documents, barcodes, delete_user_id)
            /\ documents' = delete_user_documents(documents, delete_user_id)
            /\ users' = Remove(users, {delete_user_id})
            /\ usersFile' = usersFile \ {users[delete_user_id]}
            /\ Respond("delete_user", user_id, delete_user_id, "ok")

Next ==
  \/ Tick
  \/ steps < MaxSteps /\ \E name \in FileNames \cup NewNames : login(name)
  \/ steps < MaxSteps /\ \E u \in UserIds, t \in RawDocTypes, c \in NewComments : create_new_document(u, t, c)
  \/ steps < MaxSteps /\ \E u \in UserIds, b \in RawBarcodes : add_new_barcode(u, b)
  \/ steps < MaxSteps /\ \E u \in UserIds, b \in Upto(seqBarcodes) : remove_barcode(u, b)
  \/ steps < MaxSteps /\ \E u \in UserIds : close_active_document(u)
  \/ steps < MaxSteps /\ \E u \in UserIds, d \in Upto(seqDocuments) : regenerate_document_csv(u, d)
  \/ steps < MaxSteps /\ \E u \in UserIds, d \in Upto(seqDocuments) : delete_user_document(u, d)
  \/ steps < MaxSteps /\ \E u \in UserIds, d \in Upto(seqDocuments), c \in EditComments : update_comment(u, d, c)
  \/ steps < MaxSteps /\ \E u \in UserIds, d \in Upto(seqDocuments) : admin_delete_doc(u, d)
  \/ steps < MaxSteps /\ \E u \in UserIds, d \in Upto(seqDocuments) : admin_regenerate_csv(u, d)
  \/ steps < MaxSteps /\ \E u \in UserIds, name \in FileNames \cup NewNames : admin_add_user(u, name)
  \/ steps < MaxSteps /\ \E u \in UserIds, v \in UserIds : admin_delete_user(u, v)

Spec == Init /\ [][Next]_vars

\* ------------------------------------------------- the scan page's listing
\* GET /scan/{user_id}: the grouped listing of the user's active document.
scan_page(user_id) ==
  /\ UNCHANGED <<store, now, steps, requests>>
  /\ IF user_id \notin DOMAIN users
       THEN /\ last' = [op |-> "scan_page", res |-> "NotFound"]
            /\ view' = view
       ELSE \E active_doc \in get_active_document(documents, user_id) :
              IF active_doc = None
                THEN /\ last' = [op |-> "scan_page", res |-> "redirect"]
                     /\ view' = view
                ELSE /\ last' = [op |-> "scan_page", res |-> "ok"]
                     /\ \E rows \in get_document_barcodes_sorted(barcodes, active_doc) :
                          view' = [document_id |-> active_doc, rows |-> rows]

\* Barcode values of the rows listed.
ListBarcodes == {<<"A">>, <<"B">>}

\* created_at of rows 1..n: it does not decrease with the id, as the clock
\* does not run backwards between two INSERTs.
ScanTimes(n) ==
  {tm \in [1..n -> 0..MaxListTime] : \A i \in 1..n : \A j \in i..n : tm[i] <= tm[j]}

\* The table of scan rows 1..n with these barcodes and times; row `other`,
\* if any, is a scan of the second user, the rest are the first user's.
ScanTable(n, bc, tm, other) ==
  [i \in 1..n |-> [document_id |-> IF i = other THEN 2 ELSE 1,
                   barcode |-> bc[i], created_at |-> tm[i]]]

\* Two users, each with an active document opened at time 0, and up to
\* MaxRows scans, at most one of them made by the second user.
InitList ==
  /\ users = (1 :> AdminRu) @@ (2 :> AdminName)
  /\ usersFile = FileNames
  /\ documents = (1 :> [user_id |-> 1, doc_type |-> "Inventory", status |-> "active",
                        created_at |-> 0, closed_at |-> <<>>, comment |-> <<>>])
               @@ (2 :> [user_id |-> 2, doc_type |-> "Receipt", status |-> "active",
                        created_at |-> 0, closed_at |-> <<>>, comment |-> <<>>])
  /\ \E n \in 0..MaxRows :
       /\ seqBarcodes = n
       /\ \E bc \in [1..n -> ListBarcodes], tm \in ScanTimes(n), other \in 0..n :
            barcodes = ScanTable(n, bc, tm, other)
  /\ files = <<>>
  /\ seqUsers = 2
  /\ seqDocuments = 2
  /\ now = MaxListTime
  /\ steps = 0
  /\ last = [op |-> "init", res |-> "ok"]
  /\ view = NoView
  /\ requests = <<>>

\* One page load per run: the table does not change here, so a second load
\* has the same lists to choose from as the first.
NextList == view = NoView /\ \E user_id \in UserIds : scan_page(user_id)

SpecList == InitList /\ [][NextList]_vars

\* ------------------------------------------- requests handled side by side
\* Several server processes of the app share db.sqlite3 and static/documents.
\* Every function of the data layer opens its own connection and commits
\* before it returns, and no handler holds a transaction or a lock across
\* its calls, so the calls of two requests in two processes interleave.
\* (Within the one process uvicorn.run starts, the handlers contain no await
\* and run one after another: that is specification Spec.)
MaxRaceTime == 1

Workers == {1, 2}

\* The requests a process may be given: open, scan and close.
Incoming ==
  LET req(op, user_id, doc_type, text) ==
        [op |-> op, user_id |-> user_id, doc_type |-> doc_type, text |-> text,
         pc |-> "get_active_document", active_doc |-> None, res |-> "none",
         at |-> 0]
  IN UNION {
       {req("create_document", u, t, c) : t \in RawDocTypes, c \in NewComments}
       \cup {req("add_barcode", u, "", b) : b \in RawBarcodes}
       \cup {req("close_document", u, "", <<>>)} : u \in 1..2}

\* A database the program reaches request by request: user 1 with no
\* document, with an empty active document, or with an active document of
\* one scan; each process has received one request.
InitRace ==
  /\ users = (1 :> AdminRu)
  /\ usersFile = FileNames
  /\ seqUsers = 1
  /\ \E k \in 0..2 :
       /\ documents = IF k = 0 THEN <<>>
                      ELSE create_document(<<>>, 1, 1, "Inventory", <<>>, 0)
       /\ seqDocuments = IF k = 0 THEN 0 ELSE 1
       /\ barcodes = IF k = 2 THEN add_barcode(<<>>, 1, 1, <<"A">>, 0) ELSE <<>>
       /\ seqBarcodes = IF k = 2 THEN 1 ELSE 0
  /\ files = <<>>
  /\ now = 0
  /\ steps = 0
  /\ last = [op |-> "init", res |-> "ok"]
  /\ view = NoView
  /\ requests \in [Workers -> Incoming]

\* The handler of process w returns or raises: the request is answered.
Answer(w, res) ==
  /\ requests' = [requests EXCEPT ![w].pc = "done", ![w].res = res,
                                  ![w].at = steps + 1]
  /\ steps' = steps + 1
  /\ last' = [op |-> requests[w].op, res |-> res]
  /\ view' = view

\* The handler of process w goes on to its next call.
Goto(w, pc) ==
  /\ requests' = [requests EXCEPT ![w].pc = pc]
  /\ UNCHANGED <<steps, last, view>>

\* The handler's start up to and including active_doc = get_active_document(user_id)
\* and the tests made on its result alone.
step_get_active_document(w) ==
  LET r == requests[w]
      doc_type == doc_type_map(r.doc_type)
  IN
  /\ r.pc = "get_active_document"
  /\ UNCHANGED <<store, now>>
  /\ IF r.op = "create_document" /\ doc_type \notin DocTypes
       THEN Answer(w, "InvalidInput")
     ELSE IF r.op = "add_barcode" /\ strip(r.text) = <<>>
       THEN Answer(w, "InvalidInput")
     ELSE \E active_doc \in get_active_document(documents, r.user_id) :
       IF r.op = "create_document"
         THEN IF same_type(documents, active_doc, doc_type)
                THEN /\ requests' = [requests EXCEPT ![w].pc = "done",
                                       ![w].res = "same_type", ![w].at = steps + 1,
                                       ![w].active_doc = active_doc]
                     /\ steps' = steps + 1
                     /\ last' = [op |-> r.op, res |-> "same_type"]
                     /\ view' = view
                ELSE /\ requests' = [requests EXCEPT
                                       ![w].pc = IF active_doc = None
                                                   THEN "create_document"
                                                   ELSE "get_document_barcodes",
                                       ![w].active_doc = active_doc]
                     /\ UNCHANGED <<steps, last, view>>
       ELSE IF active_doc = None
         THEN Answer(w, "NoActiveDocument")
         ELSE /\ requests' = [requests EXCEPT
                                ![w].pc = IF r.op = "add_barcode"
                                            THEN "add_barcode"
                                            ELSE "get_document_barcodes",
                                ![w].active_doc = active_doc]
              /\ UNCHANGED <<steps, last, view>>

\* barcodes = get_document_barcodes(active_doc['id']) and the test on it
step_get_document_barcodes(w) ==
  LET r == requests[w]
      empty == get_document_barcodes(barcodes, r.active_doc) = {}
  IN
  /\ r.pc = "get_document_barcodes"
  /\ UNCHANGED <<store, now>>
  /\ IF r.op = "create_document"
       THEN Goto(w, IF empty THEN "delete_document" ELSE "close_document")
       ELSE IF empty THEN Answer(w, "EmptyDocument")
                     ELSE Goto(w, "close_document")

\* delete_document(active_doc['id'], user_id), its result not looked at
step_delete_document(w) ==
  LET r == requests[w]
      d == delete_document(users, documents, barcodes, files, r.active_doc, r.user_id)
  IN
  /\ r.pc = "delete_document"
  /\ documents' = d.documents
  /\ barcodes' = d.barcodes
  /\ files' = d.files
  /\ UNCHANGED <<users, usersFile, seqUsers, seqDocuments, seqBarcodes, now>>
  /\ Goto(w, "create_document")

\* close_document(active_doc['id'])
step_close_document(w) ==
  LET r == requests[w]
  IN
  /\ r.pc = "close_document"
  /\ documents' = close_document(documents, r.active_doc, now)
  /\ UNCHANGED <<users, usersFile, barcodes, files, seqUsers, seqDocuments,
                 seqBarcodes, now>>
  /\ Goto(w, "generate_csv")

\* generate_csv(active_doc['id']): a 404 ends the request; close_active_document
\* returns after it, create_new_document goes on to create_document.
step_generate_csv(w) ==
  LET r == requests[w]
  IN
  /\ r.pc = "generate_csv"
  /\ files' = generate_csv(users, documents, barcodes, files, r.active_doc)
  /\ UNCHANGED <<users, usersFile, documents, barcodes, seqUsers, seqDocuments,
                 seqBarcodes, now>>
  /\ IF ~generate_csv_ok(users, documents, r.active_doc)
       THEN Answer(w, "NotFound")
       ELSE IF r.op = "create_document" THEN Goto(w, "create_document")
                                        ELSE Answer(w, "ok")

\* document_id = create_document(user_id, doc_type, comment.strip())
step_create_document(w) ==
  LET r == requests[w]
  IN
  /\ r.pc = "create_document"
  /\ documents' = create_document(documents, seqDocuments + 1, r.user_id,
                                  doc_type_map(r.doc_type), strip(r.text), now)
  /\ seqDocuments' = seqDocuments + 1
  /\ UNCHANGED <<users, usersFile, barcodes, files, seqUsers, seqBarcodes, now>>
  /\ Answer(w, "ok")

\* The insert made only when the document is still active at this point.
step_add_barcode_Rechecks(w) ==
  LET r == requests[w]
  IN
  /\ r.pc = "add_barcode"
  /\ UNCHANGED <<users, usersFile, documents, files, seqUsers, seqDocuments, now>>
  /\ IF r.active_doc \in DOMAIN documents /\ documents[r.active_doc].status = "active"
       THEN /\ barcodes' = add_barcode(barcodes, seqBarcodes + 1, r.active_doc,
                                       strip(r.text), now)
            /\ seqBarcodes' = seqBarcodes + 1
            /\ Answer(w, "ok")
       ELSE /\ UNCHANGED <<barcodes, seqBarcodes>>
            /\ Answer(w, "NoActiveDocument")

\* add_barcode(active_doc['id'], barcode_value)
step_add_barcode(w) ==
  LET r == requests[w]
  IN
  /\ r.pc = "add_barcode"
  /\ barcodes' = add_barcode(barcodes, seqBarcodes + 1, r.active_doc,
                             strip(r.text), now)
  /\ seqBarcodes' = seqBarcodes + 1
  /\ UNCHANGED <<users, usersFile, documents, files, seqUsers, seqDocuments, now>>
  /\ Answer(w, "ok")

\* The clock advances while the requests are in progress.
TickRace ==
  /\ now < MaxRaceTime
  /\ now' = now + 1
  /\ UNCHANGED <<store, steps, last, view, requests>>

NextRace ==
  \/ TickRace
  \/ \E w \in Workers : step_get_active_document(w)
  \/ \E w \in Workers : step_get_document_barcodes(w)
  \/ \E w \in Workers : step_delete_document(w)
  \/ \E w \in Workers : step_close_document(w)
  \/ \E w \in Workers : step_generate_csv(w)
  \/ \E w \in Workers : step_create_document(w)
  \/ \E w \in Workers : step_add_barcode(w)

SpecRace == InitRace /\ [][NextRace]_vars

\* ================================================================ claims
\* Read off the tables directly, apart from the operators of the handlers.
ScansOf(B, d) == {b \in DOMAIN B : B[b].document_id = d}
ActiveOf(D, u) == {d \in DOMAIN D : D[d].user_id = u /\ D[d].status = "active"}
\* The document's owner has a row and a file is stored under the name
\* derived from the document's type, its owner's name and its created_at.
HasArtifact(U, D, F, d) ==
  /\ D[d].user_id \in DOMAIN U
  /\ <<D[d].doc_type, U[D[d].user_id], D[d].created_at \div TicksPerSecond>>
       \in DOMAIN F

\* C1: after any sequence of completed requests, every user of the roster
\* has zero or one document with status active.
C1_AtMostOneActive ==
  \A u \in DOMAIN users : Cardinality(ActiveOf(documents, u)) <= 1

\* C2: closing is monotonic: in every step, a document that is closed is
\* closed afterwards or no longer exists; no step makes it active again.
C2_ClosedStaysClosed ==
  [][\A d \in DOMAIN documents :
       documents[d].status = "closed" =>
         (d \in DOMAIN documents' => documents'[d].status = "closed")]_vars

\* A closed document whose comment its owner has just edited.
C2_Witness ==
  /\ last = [op |-> "update_comment", res |-> "ok"]
  /\ \E d \in DOMAIN documents :
       documents[d].status = "closed" /\ documents[d].comment = <<"d">>

\* C3: close_document for a user whose active document has no scans answers
\* EmptyDocument; the document stays active with closed_at unset, and no
\* file is written.
C3_CloseEmptyFails ==
  [][last'.op = "close_document" =>
     \A u \in UserIds : \A a \in ActiveOf(documents, u) :
       (/\ ScansOf(barcodes, a) = {}
        /\ close_active_document_with(u, a)) =>
         /\ last'.res = "EmptyDocument"
         /\ a \in DOMAIN documents'
         /\ documents'[a].status = "active"
         /\ documents'[a].closed_at = <<>>
         /\ documents' = documents
         /\ files' = files]_vars

\* close_document has just answered EmptyDocument for a user whose active
\* document has no scans.
C3_Witness ==
  /\ last = [op |-> "close_document", res |-> "EmptyDocument"]
  /\ \E d \in DOMAIN documents :
       documents[d].status = "active" /\ ScansOf(barcodes, d) = {}

\* C4: create_document for a user whose active document has the requested
\* type changes no document, scan or file, whatever the comment sent and
\* however many scans the document has, and the user's active document is
\* the same before and after.
C4_SameTypeIsNoOp ==
  [][last'.op = "create_document" =>
     \A u \in UserIds, t \in RawDocTypes, c \in NewComments :
       \A a \in ActiveOf(documents, u) :
         (/\ documents[a].doc_type = doc_type_map(t)
          /\ a \in get_active_document(documents, u)
          /\ create_new_document_with(u, t, c, a)) =>
           /\ documents' = documents
           /\ barcodes' = barcodes
           /\ files' = files
           /\ seqDocuments' = seqDocuments
           /\ a \in ActiveOf(documents', u)]_vars

\* The early redirect was just taken for a document that has a scan and a
\* comment other than the one the request carried.
C4_Witness ==
  /\ last = [op |-> "create_document", res |-> "same_type"]
  /\ \E d \in DOMAIN documents :
       /\ documents[d].status = "active"
       /\ documents[d].comment = <<"d">>
       /\ ScansOf(barcodes, d) # {}

\* C5: create_document for a roster user whose active document has another
\* type and no scans deletes that document: its row is gone, no file is
\* left under the filename derived from it, and the user's only active
\* document is the new one of the requested type.
C5_StaleEmptyDeleted ==
  [][\A u \in DOMAIN users, t \in RawDocTypes, c \in NewComments :
       \A a \in ActiveOf(documents, u) :
         (/\ doc_type_map(t) \in DocTypes
          /\ documents[a].doc_type # doc_type_map(t)
          /\ ScansOf(barcodes, a) = {}
          /\ a \in get_active_document(documents, u)
          /\ create_new_document_with(u, t, c, a)) =>
           /\ a \notin DOMAIN documents'
           /\ <<documents[a].doc_type, users[u],
                documents[a].created_at \div TicksPerSecond>> \notin DOMAIN files'
           /\ seqDocuments' = seqDocuments + 1
           /\ ActiveOf(documents', u) = {seqDocuments'}
           /\ documents'[seqDocuments'].doc_type = doc_type_map(t)]_vars

\* C6: create_document for a roster user whose active document has another
\* type and at least one scan closes that document (closed_at stamped, its
\* scans kept), leaves its export file, and creates a document of the
\* requested type with the trimmed comment that is the user's only active
\* document.
C6_OpenClosesAndExports ==
  [][\A u \in DOMAIN users, t \in RawDocTypes, c \in NewComments :
       \A a \in ActiveOf(documents, u) :
         (/\ doc_type_map(t) \in DocTypes
          /\ documents[a].doc_type # doc_type_map(t)
          /\ ScansOf(barcodes, a) # {}
          /\ a \in get_active_document(documents, u)
          /\ create_new_document_with(u, t, c, a)) =>
           /\ a \in DOMAIN documents'
           /\ documents'[a].status = "closed"
           /\ documents'[a].closed_at = <<now>>
           /\ barcodes' = barcodes
           /\ HasArtifact(users', documents', files', a)
           /\ seqDocuments' = seqDocuments + 1
           /\ seqDocuments' \in DOMAIN documents'
           /\ documents'[seqDocuments'].doc_type = doc_type_map(t)
           /\ documents'[seqDocuments'].comment = strip(c)
           /\ ActiveOf(documents', u) = {seqDocuments'}]_vars

\* C7: close_document for a roster user whose active document has at least
\* one scan closes it with closed_at set and leaves a file under the
\* filename derived from it; afterwards the user has no active document.
C7_CloseExports ==
  [][\A u \in DOMAIN users : \A a \in ActiveOf(documents, u) :
       (/\ ScansOf(barcodes, a) # {}
        /\ a \in get_active_document(documents, u)
        /\ close_active_document_with(u, a)) =>
         /\ a \in DOMAIN documents'
         /\ documents'[a].status = "closed"
         /\ documents'[a].closed_at = <<now>>
         /\ HasArtifact(users', documents', files', a)
         /\ ActiveOf(documents', u) = {}]_vars

\* C8: in every reachable state each closed document has an export file
\* stored under its derived filename.
C8_ClosedHasArtifact ==
  \A d \in DOMAIN documents :
    documents[d].status = "closed" => HasArtifact(users, documents, files, d)

\* The barcode as sent is empty once trimmed.
IsBlank(s) == \A i \in 1..Len(s) : s[i] = " "

\* C9: add_barcode answers InvalidInput when the barcode is empty once
\* trimmed, and NoActiveDocument when the barcode is not and the user has no
\* active document; in both cases no row is added and the store is as it was.
C9_ScanErrors ==
  [][last'.op = "add_barcode" =>
     \A u \in UserIds, b \in RawBarcodes :
       \A a \in get_active_document(documents, u) :
         add_new_barcode_with(u, b, a) =>
           /\ IsBlank(b) => last'.res = "InvalidInput"
           /\ (~IsBlank(b) /\ ActiveOf(documents, u) = {}) =>
                last'.res = "NoActiveDocument"
           /\ (IsBlank(b) \/ ActiveOf(documents, u) = {}) =>
                /\ barcodes' = barcodes
                /\ store' = store]_vars

\* add_barcode has just answered InvalidInput while a document with a scan
\* was active.
C9_Witness ==
  /\ last = [op |-> "add_barcode", res |-> "InvalidInput"]
  /\ \E d \in DOMAIN documents :
       documents[d].status = "active" /\ ScansOf(barcodes, d) # {}

\* C10: every add_barcode that succeeds adds exactly one row, carrying the
\* trimmed barcode and the id of the user's active document, also when the
\* document already holds that barcode; the rows and documents there were
\* stay as they were.
C10_ScanAppendsOneRow ==
  [][last'.op = "add_barcode" =>
     \A u \in UserIds, b \in RawBarcodes : \A a \in ActiveOf(documents, u) :
       (~IsBlank(b) /\ add_new_barcode_with(u, b, a)) =>
         /\ \E n \in DOMAIN barcodes' \ DOMAIN barcodes :
              /\ DOMAIN barcodes' = DOMAIN barcodes \cup {n}
              /\ barcodes'[n].barcode = strip(b)
              /\ barcodes'[n].document_id = a
         /\ \A o \in DOMAIN barcodes : barcodes'[o] = barcodes[o]
         /\ documents' = documents
         /\ files' = files]_vars

\* A scan has just succeeded and its document holds one barcode in two rows.
C10_Witness ==
  /\ last = [op |-> "add_barcode", res |-> "ok"]
  /\ \E x, y \in DOMAIN barcodes :
       /\ x # y
       /\ barcodes[x].document_id = barcodes[y].document_id
       /\ barcodes[x].barcode = barcodes[y].barcode

\* C11: delete_barcode removes the row with the id sent and no other, and
\* changes no document and no file; for an id no row has it answers ok and
\* the whole store is as it was.
C11_DeleteScanExactlyOne ==
  [][last'.op = "delete_barcode" =>
     \A u \in UserIds, b \in Upto(seqBarcodes) :
       remove_barcode(u, b) =>
         /\ last'.res = "ok"
         /\ DOMAIN barcodes' = DOMAIN barcodes \ {b}
         /\ \A o \in DOMAIN barcodes \ {b} : barcodes'[o] = barcodes[o]
         /\ documents' = documents
         /\ files' = files
         /\ b \notin DOMAIN barcodes => store' = store]_vars

\* A scan row has just been deleted from a document that keeps another one.
C11_Witness ==
  /\ last = [op |-> "delete_barcode", res |-> "ok"]
  /\ seqBarcodes = 2
  /\ Cardinality(DOMAIN barcodes) = 1

\* C12: a delete_document or admin delete_document that answers ok removes
\* the document's row and every scan row of the document and, when the
\* document was closed, the file under its derived filename; the rows of
\* other documents and their scans are as they were.
C12_DeleteCascades ==
  [][(last'.op \in {"delete_document", "admin_delete_document"}
      /\ last'.res = "ok") =>
     \A u \in UserIds, d \in DOMAIN documents :
       (delete_user_document(u, d) \/ admin_delete_doc(u, d)) =>
         /\ DOMAIN documents' = DOMAIN documents \ {d}
         /\ \A e \in DOMAIN documents \ {d} : documents'[e] = documents[e]
         /\ DOMAIN barcodes' = DOMAIN barcodes \ ScansOf(barcodes, d)
         /\ \A o \in DOMAIN barcodes' : barcodes'[o] = barcodes[o]
         /\ documents[d].status = "closed" =>
              ~HasArtifact(users', documents, files', d)]_vars

\* The only user has just deleted the first document, which held the only
\* scan and was closed when the second document was opened; its file is gone.
C12_Witness ==
  /\ last = [op |-> "delete_document", res |-> "ok"]
  /\ DOMAIN users = {1}
  /\ seqDocuments = 2
  /\ DOMAIN documents = {2}
  /\ documents[2].user_id = 1
  /\ seqBarcodes = 1
  /\ barcodes = <<>>
  /\ files = <<>>

\* C13: delete_document by a requester who is not the document's owner, or
\* for an id no document has, answers NotFound and leaves the store as it
\* was.
C13_DeleteNotOwnerFails ==
  [][last'.op = "delete_document" =>
     \A u \in UserIds, d \in Upto(seqDocuments) :
       (/\ d \notin DOMAIN documents \/ documents[d].user_id # u
        /\ delete_user_document(u, d)) =>
         /\ last'.res = "NotFound"
         /\ store' = store]_vars

\* delete_document has just answered NotFound while a closed document with
\* its file and its scans is stored.
C13_Witness ==
  /\ last = [op |-> "delete_document", res |-> "NotFound"]
  /\ \E d \in DOMAIN documents :
       /\ documents[d].status = "closed"
       /\ HasArtifact(users, documents, files, d)
       /\ ScansOf(barcodes, d) # {}

\* The requester's row says admin, read off the table.
IsAdminRow(u) == u \in DOMAIN users /\ users[u] = "admin"

\* C14: update_comment by a requester who is not admin answers ok exactly
\* when the document exists and is the requester's, and by an admin exactly
\* when it exists; when it does not answer ok the store is as it was, and
\* when it does, the document's comment is the trimmed one sent and nothing
\* else of the store has changed.
C14_UpdateCommentFrame ==
  [][last'.op = "update_comment" =>
     \A u \in UserIds, d \in Upto(seqDocuments), c \in EditComments :
       update_comment(u, d, c) =>
         /\ last'.res = "ok" <=>
              /\ d \in DOMAIN documents
              /\ IsAdminRow(u) \/ documents[d].user_id = u
         /\ last'.res # "ok" => store' = store
         /\ last'.res = "ok" =>
              /\ documents' = [documents EXCEPT ![d].comment = strip(c)]
              /\ barcodes' = barcodes
              /\ files' = files
              /\ users' = users]_vars

\* A document of user 1 carries the edited comment right after update_comment
\* answered ok, with an admin on the roster and no document of the admin.
C14_Witness ==
  /\ last = [op |-> "update_comment", res |-> "ok"]
  /\ \E d \in DOMAIN documents :
       /\ documents[d].comment = <<"d">>
       /\ documents[d].user_id = 1
  /\ \E u \in DOMAIN users : users[u] = "admin"
  /\ \A d \in DOMAIN documents : documents[d].user_id = 1

\* The rows of the list rendered that carry the barcode of its row i.
SameValue(i) == {j \in 1..Len(view.rows) : view.rows[j].barcode = view.rows[i].barcode}

\* C15: the list rendered for a document holds exactly the document's scan
\* rows, each once, with the barcode and created_at of the row, by barcode
\* ascending and, within one barcode, by created_at descending.
C15_ListGroupedOrder ==
  view.document_id # None =>
    LET rows == view.rows
        scans == ScansOf(barcodes, view.document_id)
    IN /\ {rows[i].id : i \in 1..Len(rows)} = scans
       /\ Len(rows) = Cardinality(scans)
       /\ \A i \in 1..Len(rows) :
            /\ rows[i].barcode = barcodes[rows[i].id].barcode
            /\ rows[i].created_at = barcodes[rows[i].id].created_at
       /\ \A i \in 1..Len(rows) : \A j \in (i + 1)..Len(rows) :
            \/ LexLess(rows[i].barcode, rows[j].barcode)
            \/ /\ rows[i].barcode = rows[j].barcode
               /\ rows[i].created_at >= rows[j].created_at

\* The list rendered for scans A at t1, B at t2, A at t3 with t1 < t2 < t3,
\* next to a scan of the other document: A at t3, A at t1, B at t2.
C15_Witness ==
  /\ view.document_id = 1
  /\ Len(view.rows) = 3
  /\ Cardinality(DOMAIN barcodes) = 4
  /\ view.rows[1].barcode = <<"A">>
  /\ view.rows[2].barcode = <<"A">>
  /\ view.rows[3].barcode = <<"B">>
  /\ view.rows[2].created_at < view.rows[3].created_at
  /\ view.rows[3].created_at < view.rows[1].created_at

\* C16: in the list rendered, a row's total_count is the number of the
\* document's scans with its barcode, is_duplicate says that the count
\* exceeds 1, and the sequence_number of a row is its rank among the rows of
\* its barcode in the order of the list, so that these are 1..total_count.
C16_OccurrenceAndSequence ==
  view.document_id # None =>
    \A i \in 1..Len(view.rows) :
      LET row == view.rows[i]
      IN /\ row.total_count =
              Cardinality({b \in ScansOf(barcodes, view.document_id) :
                             barcodes[b].barcode = row.barcode})
         /\ row.is_duplicate <=> row.total_count > 1
         /\ row.sequence_number = Cardinality({j \in SameValue(i) : j <= i})
         /\ {view.rows[j].sequence_number : j \in SameValue(i)} = 1..row.total_count

\* The list rendered has two rows of one barcode, numbered 1 and 2 and
\* marked duplicate, followed by a row of another barcode that is not.
C16_Witness ==
  /\ view.document_id # None
  /\ Len(view.rows) = 3
  /\ view.rows[1].is_duplicate /\ view.rows[1].total_count = 2
  /\ view.rows[1].sequence_number = 1
  /\ view.rows[2].is_duplicate /\ view.rows[2].sequence_number = 2
  /\ ~view.rows[3].is_duplicate /\ view.rows[3].total_count = 1
  /\ view.rows[3].sequence_number = 1

\* C17: in the list rendered, a duplicate row's color_index is its
\* sequence_number less one modulo 4 and any other row's is 0; it is always
\* one of 0..3.
C17_ColorIndex ==
  view.document_id # None =>
    \A i \in 1..Len(view.rows) :
      LET row == view.rows[i]
      IN /\ row.is_duplicate => row.color_index = (row.sequence_number - 1) % 4
         /\ ~row.is_duplicate => row.color_index = 0
         /\ row.color_index \in 0..3

\* The list rendered has a fifth row of one barcode, back at color 0, after
\* rows of the colors 1, 2 and 3.
C17_Witness ==
  /\ view.document_id # None
  /\ \E i \in 1..Len(view.rows) :
       /\ view.rows[i].sequence_number = 5
       /\ view.rows[i].color_index = 0
  /\ {1, 2, 3} \subseteq {view.rows[i].color_index : i \in 1..Len(view.rows)}

\* The filename derived from a document whose owner has a row.
ArtifactName(U, D, d) ==
  <<D[d].doc_type, U[D[d].user_id], D[d].created_at \div TicksPerSecond>>

\* The orders of a set of scan rows by created_at ascending.
RECURSIVE AscendingOrders(_, _)
AscendingOrders(B, ids) ==
  IF ids = {} THEN {<<>>}
  ELSE UNION {{<<x>> \o rest : rest \in AscendingOrders(B, ids \ {x})} :
                x \in {x \in ids : \A y \in ids : B[x].created_at <= B[y].created_at}}

\* The contents an export of document d may have: the header of five
\* columns, then per scan, by created_at ascending, the owner's name, the
\* document's created_at, type and comment, and the scan's barcode.
ExpectedCsv(U, D, B, d) ==
  {<<<<"User", "Date", "DocType", "Comment", "Barcode">>>> \o
     [i \in 1..Len(order) |->
        <<U[D[d].user_id], D[d].created_at, D[d].doc_type, D[d].comment,
          B[order[i]].barcode>>] :
   order \in AscendingOrders(B, ScansOf(B, d))}

\* A regenerate_csv request for document d that reaches generate_csv: any
\* requester's on the user's route, an admin's on the admin's.
Regenerates(u, d) ==
  \/ regenerate_document_csv(u, d)
  \/ IsAdminRow(u) /\ admin_regenerate_csv(u, d)

\* C18: regenerate_csv for a document that exists leaves a file under the
\* document's derived filename holding the header and one row per scan of
\* the document by created_at ascending, each with the owner's name, the
\* document's created_at, type and comment and the scan's barcode.
C18_ExportContent ==
  [][last'.op \in {"regenerate_csv", "admin_regenerate_csv"} =>
     \A u \in UserIds, d \in DOMAIN documents :
       Regenerates(u, d) =>
         /\ HasArtifact(users, documents, files', d)
         /\ files'[ArtifactName(users, documents, d)]
              \in ExpectedCsv(users, documents, barcodes, d)]_vars

\* C19: regenerate_csv for a document whose file already holds the export
\* of the document as it is now writes the same filename with the same
\* content: the files are as they were, none added.
C19_ExportDeterministic ==
  [][(last'.op \in {"regenerate_csv", "admin_regenerate_csv"}
      /\ last'.res = "ok") =>
     \A u \in UserIds, d \in DOMAIN documents :
       (/\ HasArtifact(users, documents, files, d)
        /\ files[ArtifactName(users, documents, d)]
             \in ExpectedCsv(users, documents, barcodes, d)
        /\ Regenerates(u, d)) =>
         /\ files' = files
         /\ Cardinality(DOMAIN files') = Cardinality(DOMAIN files)]_vars

\* Four requests in all: the only user opened a document, scanned into it
\* and closed it, which wrote its export, and regenerate_csv has just
\* answered ok for the document, unchanged since.
C19_Witness ==
  /\ last = [op |-> "regenerate_csv", res |-> "ok"]
  /\ steps = 4
  /\ DOMAIN users = {1}
  /\ seqDocuments = 1 /\ DOMAIN documents = {1}
  /\ seqBarcodes = 1 /\ DOMAIN barcodes = {1}
  /\ documents[1].status = "closed"
  /\ documents[1].comment = <<"c">>
  /\ HasArtifact(users, documents, files, 1)
  /\ Len(files[ArtifactName(users, documents, 1)]) = 2

\* C20: the derived filename of a document is the same after every step as
\* before it, and a regenerate_csv that answers ok writes the export of the
\* document as it is now under that filename and touches no other file, so
\* that an earlier export of the document is replaced.
C20_FilenameStable ==
  [][/\ \A d \in DOMAIN documents \cap DOMAIN documents' :
          (documents[d].user_id \in DOMAIN users
           /\ documents'[d].user_id \in DOMAIN users') =>
            ArtifactName(users', documents', d) = ArtifactName(users, documents, d)
     /\ (last'.op \in {"regenerate_csv", "admin_regenerate_csv"}
         /\ last'.res = "ok") =>
          \A u \in UserIds, d \in DOMAIN documents :
            Regenerates(u, d) =>
              /\ DOMAIN files' = DOMAIN files \cup {ArtifactName(users, documents, d)}
              /\ files'[ArtifactName(users, documents, d)]
                   \in ExpectedCsv(users, documents, barcodes, d)
              /\ \A f \in DOMAIN files \ {ArtifactName(users, documents, d)} :
                   files'[f] = files[f]]_vars

\* The one file stored is the export of a closed document with the comment
\* edited after the close, just written by regenerate_csv over the export
\* the close had left.
C20_Witness ==
  /\ last = [op |-> "regenerate_csv", res |-> "ok"]
  /\ Cardinality(DOMAIN files) = 1
  /\ \E d \in DOMAIN documents :
       /\ documents[d].status = "closed"
       /\ documents[d].comment = <<"d">>
       /\ HasArtifact(users, documents, files, d)
       /\ files[ArtifactName(users, documents, d)]
            \in ExpectedCsv(users, documents, barcodes, d)

\* Two documents of one type, one owner and one created_at second.
SameTriple(D, d, e) ==
  /\ D[d].doc_type = D[e].doc_type
  /\ D[d].user_id = D[e].user_id
  /\ D[d].created_at \div TicksPerSecond = D[e].created_at \div TicksPerSecond

\* C21: when regenerate_csv answers ok for document d, every other document
\* e of d's type, owner and created_at second has its artifact under the
\* name d's export was written to, that one file holds the export of d, and
\* no file was added for d beside the one e already had.
C21_CollisionOverwrites ==
  [][(last'.op \in {"regenerate_csv", "admin_regenerate_csv"}
      /\ last'.res = "ok") =>
     \A u \in UserIds, d \in DOMAIN documents :
       Regenerates(u, d) =>
         \A e \in DOMAIN documents \ {d} :
           SameTriple(documents, d, e) =>
             /\ ArtifactName(users, documents, e) = ArtifactName(users, documents, d)
             /\ HasArtifact(users, documents, files', e)
             /\ files'[ArtifactName(users, documents, e)]
                  \in ExpectedCsv(users, documents, barcodes, d)
             /\ (HasArtifact(users, documents, files, e) =>
                   DOMAIN files' = DOMAIN files)]_vars

\* Document 1 was closed with a scan, which wrote its export; document 2 of
\* the same type and owner was opened in the same second, and regenerate_csv
\* for it has just answered ok: the one file stored holds the export of
\* document 2, no longer that of document 1.
C21_Witness ==
  /\ last = [op |-> "regenerate_csv", res |-> "ok"]
  /\ DOMAIN documents = {1, 2}
  /\ SameTriple(documents, 1, 2)
  /\ documents[1].status = "closed"
  /\ ScansOf(barcodes, 1) # {} /\ ScansOf(barcodes, 2) = {}
  /\ Cardinality(DOMAIN files) = 1
  /\ HasArtifact(users, documents, files, 1)
  /\ HasArtifact(users, documents, files, 2)
  /\ files[ArtifactName(users, documents, 2)]
       \in ExpectedCsv(users, documents, barcodes, 2)
  /\ files[ArtifactName(users, documents, 1)]
       \notin ExpectedCsv(users, documents, barcodes, 1)

\* C22: regenerate_csv for a document id that no documents row has answers
\* NotFound, and the users, documents, barcodes and files are as before: no
\* file is created, overwritten or removed.
C22_GenerateMissingFails ==
  [][last'.op \in {"regenerate_csv", "admin_regenerate_csv"} =>
     \A u \in UserIds, d \in Upto(seqDocuments) \ DOMAIN documents :
       Regenerates(u, d) =>
         /\ last'.res = "NotFound"
         /\ store' = store
         /\ DOMAIN files' = DOMAIN files
         /\ \A f \in DOMAIN files : files'[f] = files[f]]_vars

\* A document with a stored export exists, every document's owner has a
\* row, and regenerate_csv has just answered NotFound: the id it was asked
\* for is that of no document.
C22_Witness ==
  /\ last = [op |-> "regenerate_csv", res |-> "NotFound"]
  /\ \A d \in DOMAIN documents : documents[d].user_id \in DOMAIN users
  /\ \E d \in DOMAIN documents : HasArtifact(users, documents, files, d)

\* The administrator identity: the name is_admin tests for, and the name of
\* the row init_db creates as the administrator.
AdministratorNames == {AdminName, AdminRu}

\* C23: a delete_user request whose target row bears the administrator
\* identity answers Forbidden whoever the requester is and leaves users,
\* documents and barcodes unchanged, and no step removes a row bearing the
\* administrator identity from users.
C23_AdminProtected ==
  [][/\ last'.op = "delete_user" =>
          \A u \in UserIds, v \in DOMAIN users :
            (users[v] \in AdministratorNames /\ admin_delete_user(u, v)) =>
              /\ last'.res = "Forbidden"
              /\ users' = users
              /\ documents' = documents
              /\ barcodes' = barcodes
     /\ \A v \in DOMAIN users :
          users[v] \in AdministratorNames =>
            v \in DOMAIN users' /\ users'[v] = users[v]]_vars

\* C24: a delete_user request that succeeds for user v removes v's row,
\* every document whose user_id is v and every barcode of those documents;
\* every other users row, every document of another user_id and every
\* barcode of another document is as before.
C24_DeleteUserCascades ==
  [][(last'.op = "delete_user" /\ last'.res = "ok") =>
     \A u \in UserIds, v \in UserIds :
       admin_delete_user(u, v) =>
         LET docs == {d \in DOMAIN documents : documents[d].user_id = v}
             scans == {b \in DOMAIN barcodes : barcodes[b].document_id \in docs}
         IN /\ DOMAIN users' = DOMAIN users \ {v}
            /\ \A o \in DOMAIN users' : users'[o] = users[o]
            /\ DOMAIN documents' = DOMAIN documents \ docs
            /\ \A d \in DOMAIN documents' : documents'[d] = documents[d]
            /\ DOMAIN barcodes' = DOMAIN barcodes \ scans
            /\ \A b \in DOMAIN barcodes' : barcodes'[b] = barcodes[b]]_vars

\* Five requests in all: admin logged in and opened a document, user 1
\* opened a document and scanned into it, and admin has just deleted user 1:
\* user 1's row, document and scan are gone, admin's row and document remain.
C24_Witness ==
  /\ last = [op |-> "delete_user", res |-> "ok"]
  /\ steps = 5
  /\ DOMAIN users = {2}
  /\ seqDocuments = 2 /\ Cardinality(DOMAIN documents) = 1
  /\ \A d \in DOMAIN documents : documents[d].user_id = 2
  /\ seqBarcodes = 1 /\ barcodes = <<>>

\* C25: for an existing document d with owner o, a step of the admin's
\* delete for d leaves the documents, barcodes and files that
\* delete_document(d, o) leaves and succeeds when it succeeds, a step of
\* o's own delete for d leaves what admin_delete_document(d) leaves, and the
\* same holds for the comment update of an admin and of the owner.
C25_AdminEqualsOwner ==
  [][/\ last'.op = "admin_delete_document" =>
          \A u \in UserIds, d \in DOMAIN documents :
            (IsAdminRow(u) /\ admin_delete_doc(u, d)) =>
              LET own == delete_document(users, documents, barcodes, files, d,
                                         documents[d].user_id)
              IN /\ <<documents', barcodes', files'>>
                      = <<own.documents, own.barcodes, own.files>>
                 /\ (last'.res = "ok") = own.success
                 /\ users' = users
     /\ last'.op = "delete_document" =>
          \A d \in DOMAIN documents :
            delete_user_document(documents[d].user_id, d) =>
              LET adm == admin_delete_document(users, documents, barcodes, files, d)
              IN /\ <<documents', barcodes', files'>>
                      = <<adm.documents, adm.barcodes, adm.files>>
                 /\ (last'.res = "ok") = adm.success
                 /\ users' = users
     /\ last'.op = "update_comment" =>
          \A d \in DOMAIN documents, c \in EditComments :
            LET o == documents[d].user_id
            IN /\ \A u \in UserIds :
                    (IsAdminRow(u) /\ update_comment(u, d, c)) =>
                      /\ documents' = update_document_comment(documents, d, o, strip(c))
                      /\ (last'.res = "ok") = update_document_comment_ok(documents, d, o)
                      /\ <<users', barcodes', files'>> = <<users, barcodes, files>>
               /\ update_comment(o, d, c) =>
                    /\ documents' = admin_update_document_comment(documents, d, strip(c))
                    /\ (last'.res = "ok") = admin_update_document_comment_ok(documents, d)
                    /\ <<users', barcodes', files'>> = <<users, barcodes, files>>]_vars

\* Five requests and no tick: admin logged in, user 1 opened a document,
\* scanned into it and closed it, which wrote its export, and admin's delete
\* of the document has just answered ok: document, scan and export are gone.
C25_Witness ==
  /\ last = [op |-> "admin_delete_document", res |-> "ok"]
  /\ steps = 5 /\ now = 0
  /\ DOMAIN users = {1, 2}
  /\ seqDocuments = 1 /\ documents = <<>>
  /\ seqBarcodes = 1 /\ barcodes = <<>>
  /\ files = <<>>

\* C26: when two create_document requests of one user, handled side by
\* side, have both found no active document (each ran get_active_document
\* before the other ran create_document) and both have answered ok, the
\* user has two active documents: nothing between the check and the insert
\* makes the second request see the first one's document.
C26_OpenRace ==
  \A w \in DOMAIN requests, v \in DOMAIN requests :
    (/\ w # v
     /\ requests[w].op = "create_document" /\ requests[v].op = "create_document"
     /\ requests[w].user_id = requests[v].user_id
     /\ requests[w].pc = "done" /\ requests[v].pc = "done"
     /\ requests[w].res = "ok" /\ requests[v].res = "ok"
     /\ requests[w].active_doc = None /\ requests[v].active_doc = None) =>
      Cardinality(ActiveOf(documents, requests[w].user_id)) >= 2

\* User 1, who has a users row and had no document, sent two
\* create_document requests of different types; both found no active
\* document, both answered ok, and documents 1 and 2 are both active.
C26_Witness ==
  /\ DOMAIN requests = Workers
  /\ \A w \in Workers :
       /\ requests[w].op = "create_document" /\ requests[w].user_id = 1
       /\ requests[w].pc = "done" /\ requests[w].res = "ok"
       /\ requests[w].active_doc = None
  /\ 1 \in DOMAIN users
  /\ DOMAIN documents = {1, 2}
  /\ ActiveOf(documents, 1) = {1, 2}
  /\ documents[1].doc_type # documents[2].doc_type

\* C27: when an add_barcode request found document d active and a
\* close_document request for d, handled side by side, closed and exported d
\* and answered ok before the add_barcode request made its insert, the
\* add_barcode request answers ok all the same, and d is closed with more
\* barcodes rows than its export file has rows: a row the export lacks.
C27_ScanCloseRace ==
  \A w \in DOMAIN requests, v \in DOMAIN requests :
    (/\ requests[w].op = "add_barcode" /\ requests[v].op = "close_document"
     /\ requests[w].active_doc # None
     /\ requests[w].active_doc = requests[v].active_doc
     /\ requests[v].pc = "done" /\ requests[v].res = "ok"
     /\ requests[w].pc = "done"
     /\ requests[v].at < requests[w].at) =>
      LET d == requests[w].active_doc
      IN /\ requests[w].res = "ok"
         /\ d \in DOMAIN documents /\ documents[d].status = "closed"
         /\ HasArtifact(users, documents, files, d)
         /\ Cardinality(ScansOf(barcodes, d))
              > Len(files[ArtifactName(users, documents, d)]) - 1
         /\ files[ArtifactName(users, documents, d)]
              \notin ExpectedCsv(users, documents, barcodes, d)

\* Document 1 of user 1 held one scan. The scan request found it active, the
\* close request closed and exported it and answered first, and the scan
\* request then inserted row 2: document 1 is closed with two scans and its
\* file holds the header and the one earlier row.
C27_Witness ==
  /\ DOMAIN requests = Workers
  /\ \E w \in Workers, v \in Workers :
       /\ requests[w].op = "add_barcode" /\ requests[w].res = "ok"
       /\ requests[v].op = "close_document" /\ requests[v].res = "ok"
       /\ requests[w].active_doc = 1 /\ requests[v].active_doc = 1
       /\ requests[v].at < requests[w].at
  /\ DOMAIN documents = {1} /\ documents[1].status = "closed"
  /\ ScansOf(barcodes, 1) = {1, 2}
  /\ HasArtifact(users, documents, files, 1)
  /\ Len(files[ArtifactName(users, documents, 1)]) = 2

\* C28: in every reachable state a document has closed_at set exactly when
\* its status is closed, and a document with closed_at set was closed at a
\* time not before its creation.
C28_ClosedAtIffClosed ==
  \A d \in DOMAIN documents :
    /\ (documents[d].closed_at # <<>>) <=> (documents[d].status = "closed")
    /\ documents[d].status \in {"active", "closed"}
    /\ documents[d].closed_at # <<>> =>
         /\ Len(documents[d].closed_at) = 1
         /\ documents[d].closed_at[1] >= documents[d].created_at

\* A closed document with closed_at set, later than its created_at, beside
\* an active document with closed_at unset.
C28_Witness ==
  \E d \in DOMAIN documents, e \in DOMAIN documents :
    /\ documents[d].status = "closed"
    /\ documents[d].closed_at # <<>>
    /\ documents[d].closed_at[1] > documents[d].created_at
    /\ documents[e].status = "active"
    /\ documents[e].closed_at = <<>>

\* C29: every document with status closed has at least one barcodes row.
C29_ClosedNotEmpty ==
  \A d \in DOMAIN documents :
    documents[d].status = "closed" => ScansOf(barcodes, d) # {}

\* C30: every barcodes row's document_id is the id of a documents row, and
\* every document's user_id is the id of a users row.
C30_ReferentialIntegrity ==
  /\ \A b \in DOMAIN barcodes : barcodes[b].document_id \in DOMAIN documents
  /\ \A d \in DOMAIN documents : documents[d].user_id \in DOMAIN users

\* C31: every stored file is the export of a document that exists now with
\* status closed: its name is the name derived from such a document, whose
\* owner has a users row.
C31_ArtifactsOfClosed ==
  \A f \in DOMAIN files :
    \E d \in DOMAIN documents :
      /\ documents[d].status = "closed"
      /\ documents[d].user_id \in DOMAIN users
      /\ ArtifactName(users, documents, d) = f

\* The document, barcodes rows and export file (when the owner has a users
\* row) of document d, as a requester other than its owner must leave them.
OwnedUntouched(d) ==
  /\ d \in DOMAIN documents' /\ documents'[d] = documents[d]
  /\ ScansOf(barcodes', d) = ScansOf(barcodes, d)
  /\ \A b \in ScansOf(barcodes, d) : barcodes'[b] = barcodes[b]
  /\ documents[d].user_id \in DOMAIN users =>
       LET f == ArtifactName(users, documents, d)
       IN /\ (f \in DOMAIN files') = (f \in DOMAIN files)
          /\ f \in DOMAIN files => files'[f] = files[f]

\* C32: a create_document, add_barcode, delete_barcode, close_document,
\* delete_document, update_comment or regenerate_csv request of a user u
\* who has a users row and is not an admin leaves every document of another
\* user who has a users row, its barcodes rows and its export file as they
\* were.
C32_OwnershipIsolation ==
  [][last'.op \in {"create_document", "add_barcode", "delete_barcode",
                   "close_document", "delete_document", "update_comment",
                   "regenerate_csv"} =>
     \A u \in DOMAIN users :
       (/\ ~is_admin(users[u])
        /\ \/ \E t \in RawDocTypes, c \in NewComments : create_new_document(u, t, c)
           \/ \E b \in RawBarcodes : add_new_barcode(u, b)
           \/ \E b \in Upto(seqBarcodes) : remove_barcode(u, b)
           \/ close_active_document(u)
           \/ \E d \in Upto(seqDocuments) : delete_user_document(u, d)
           \/ \E d \in Upto(seqDocuments), c \in EditComments : update_comment(u, d, c)
           \/ \E d \in Upto(seqDocuments) : regenerate_document_csv(u, d)) =>
         \A d \in DOMAIN documents :
           (documents[d].user_id # u /\ documents[d].user_id \in DOMAIN users) =>
             OwnedUntouched(d)]_vars

\* C33: with requests handled one at a time, no step adds a barcodes row to
\* a document whose status is closed (the rows of a closed document after a
\* step are among its rows before it), and every row a step adds belongs to
\* a document that was active before the step and is added by add_barcode.
C33_NoScanAfterClose ==
  [][/\ \A d \in DOMAIN documents :
          documents[d].status = "closed" =>
            /\ ScansOf(barcodes', d) \subseteq ScansOf(barcodes, d)
            /\ \A b \in ScansOf(barcodes', d) : barcodes'[b] = barcodes[b]
     /\ \A b \in DOMAIN barcodes' \ DOMAIN barcodes :
          /\ last'.op = "add_barcode" /\ last'.res = "ok"
          /\ barcodes'[b].document_id \in DOMAIN documents
          /\ documents[barcodes'[b].document_id].status = "active"]_vars

\* User 1 opened a document, scanned into it, opened one of another type,
\* which closed the first, and the scan just answered went to the second:
\* the closed document still holds its one row, the new row is the active
\* document's.
C33_Witness ==
  /\ last = [op |-> "add_barcode", res |-> "ok"]
  /\ DOMAIN documents = {1, 2}
  /\ documents[1].user_id = 1 /\ documents[2].user_id = 1
  /\ documents[1].status = "closed" /\ documents[2].status = "active"
  /\ ScansOf(barcodes, 1) = {1}
  /\ ScansOf(barcodes, 2) = {2}

====
